---- MODULE Spec2Model ----
(***************************************************************************)
(* Sidekick-App: the Tap Tempo tracker of src/components/Tools.tsx         *)
(* (specification SpecTap) and the Standard MIDI File encoder of           *)
(* src/services/audioService.ts with its caller in VoiceToMidi.tsx         *)
(* (specification SpecMidi); its variable-length quantities on their own   *)
(* (SpecVlq); the note mapper (SpecNote); the pitch estimator (SpecPitch); *)
(* the recorder components (SpecRec); the tuner (SpecTuner).               *)
(*                                                                         *)
(* Numbers.  Timestamps are integer milliseconds (Date.now()).  A          *)
(* JavaScript number that can be +Infinity is a record [inf, val].  The    *)
(* code divides IEEE doubles; a quotient of small integers is modelled by  *)
(* the exact rational, and where the code rounds a quotient of a quotient  *)
(* (the tap tempo) the one case in which the two roundings of the doubles  *)
(* change the result, an exact tie x.5, is computed as the doubles do.     *)
(***************************************************************************)
EXTENDS Integers, Sequences, FiniteSets, TLC

(***************************************************************************)
(* Bounds of the model.                                                    *)
(***************************************************************************)
\* the clock stops advancing after this many milliseconds
MaxTime == 3600
\* largest number of timestamps the model lets the window hold before a tap
MaxTaps == 3

\* amounts (ms) by which the wall clock advances between two events
Steps == {300, 500}
\* largest number of notes in the list handed to the MIDI encoder
MaxNotes == 2
\* the values 0..MaxSmallVlq are encoded, besides those around the lengths
MaxSmallVlq == 40
\* number of samples of a frame given to the pitch estimator (2048 in
\* Tools.tsx:127)
FrameLen == 6
\* number of recordings asked for or made in a recorder component
MaxRecordings == 3
\* number of animation frames the tuner requests
MaxFrames == 4
\* number of permission requests of the tuner waiting at a time
MaxPendingTuner == 2

\* the fields of the notes the transcription service can return
\* (JSON numbers, unvalidated: VoiceToMidi.tsx:31-40); times in milliseconds
Pitches == {60, 64, 300}
Velocities == {100}
StartTimes == {0, 500}
Durations == {0 - 500, 0, 2, 500}
\* the bpm field of a sketch; 0 stands for a missing or zero bpm
SketchBpms == {0, 30, 90, 120}

(***************************************************************************)
(* Program constants.                                                      *)
(***************************************************************************)
\* Tools.tsx:51  filter(t => now - t < 3000)
StaleMs == 3000
\* Tools.tsx:60  Math.round(60000 / avgInterval)
MsPerMinute == 60000

VARIABLES
    clock,      \* the value Date.now() returns at this moment
    taps,       \* Tools.tsx:24  useState<number[]>([])
    bpm,        \* Tools.tsx:25  useState<number>(0)
    lastOp,     \* history: the last tracker operation, "none" | "tap" | "reset"
    prevOp,     \* history: the tracker operation before lastOp
    prevTaps,   \* history: the window as the last handleTap found it
    now,        \* history: the timestamp the last handleTap read
    resetFrom,  \* history: how many timestamps the last resetTap cleared
    midiNotes,  \* VoiceToMidi.tsx:40  sketch.midiNotes
    sketchBpm,  \* VoiceToMidi.tsx:39  sketch.bpm
    blob,       \* the bytes of the Blob generateMidiFile returned, <<>> before
    vlqValue,   \* audioService.ts:85  the argument of a call of writeVar
    vlqData,    \* audioService.ts:85  the array the call pushes on, <<>> before
    isHzToNote,     \* Tools.tsx:33  true: Hz -> Note, false: Note -> Hz
    hzInput,        \* Tools.tsx:34  the text of the frequency field
    noteOutput,     \* Tools.tsx:35  the label shown for the frequency
    selectedNote,   \* Tools.tsx:38  the pitch class chosen in the dropdown
    selectedOctave, \* Tools.tsx:39  the octave chosen in the dropdown
    hzOutput,       \* Tools.tsx:40  the text shown for the chosen note
    buf,        \* Tools.tsx:127  the frame handed to getPitch, in 256ths
    sampleRate, \* Tools.tsx:129  getAudioContext().sampleRate
    pitchPc,    \* where the call of getPitch stands
    bufSlice,   \* audioService.ts:52  the trimmed frame, <<>> before
    corr,       \* audioService.ts:54  the array c of correlations
    dPos,       \* audioService.ts:60  the lag d of the skipping loop
    ac,         \* Tools.tsx:129  what getPitch returned
    pitch,      \* Tools.tsx:134  the frequency of the pitch state
    component,  \* which recorder component: "Recorder" or "VoiceToMidi"
    state,      \* Recorder.tsx:8, VoiceToMidi.tsx:8  the RecorderState
    pendingMic, \* calls of getUserMedia that have not settled yet
    recorders,  \* the MediaRecorders created, each with its stream
    mediaRecorderRef,   \* Recorder.tsx:12  index in recorders, 0 for null
    sketches,   \* Recorder.tsx:9, VoiceToMidi.tsx:10  newest first; each
                \* sketch is kept as the outcome of the call it came from
    isTunerActive,  \* Tools.tsx:43
    analyserRef,    \* Tools.tsx:46  TRUE when it holds an analyser
    requestRef,     \* Tools.tsx:45  the id of the last frame requested
    pendingTuner,   \* calls of getUserMedia of the tuner not yet settled
    scheduled,      \* ids of the animation frames requested and not yet
                    \* run or cancelled
    nextFrame,      \* the id the next requestAnimationFrame returns
    toggledOff,     \* the last click on the tuner button turned it off
    tunerOp         \* the last operation of the tuner

tapVars == <<clock, taps, bpm, lastOp, prevOp, prevTaps, now, resetFrom>>
midiVars == <<midiNotes, sketchBpm, blob>>
vlqVars == <<vlqValue, vlqData>>
noteVars == <<isHzToNote, hzInput, noteOutput, selectedNote, selectedOctave,
              hzOutput>>
pitchVars == <<buf, sampleRate, pitchPc, bufSlice, corr, dPos, ac, pitch>>
recVars == <<component, state, pendingMic, recorders, mediaRecorderRef,
             sketches>>
tunerVars == <<isTunerActive, analyserRef, requestRef, pendingTuner,
               scheduled, nextFrame, toggledOff, tunerOp>>
vars == <<tapVars, midiVars, vlqVars, noteVars, pitchVars, recVars, tunerVars>>
\* what the operations of one component leave alone
othersOfTap == <<midiVars, vlqVars, noteVars, pitchVars, recVars, tunerVars>>
othersOfMidi == <<tapVars, vlqVars, noteVars, pitchVars, recVars, tunerVars>>
othersOfVlq == <<tapVars, midiVars, noteVars, pitchVars, recVars, tunerVars>>
othersOfNote == <<tapVars, midiVars, vlqVars, pitchVars, recVars, tunerVars>>
othersOfPitch == <<tapVars, midiVars, vlqVars, noteVars, recVars, tunerVars>>
othersOfRec == <<tapVars, midiVars, vlqVars, noteVars, pitchVars, tunerVars>>
\* the tuner sets the pitch state and leaves the rest of a call of getPitch
othersOfTuner ==
    <<tapVars, midiVars, vlqVars, noteVars, recVars,
      buf, sampleRate, pitchPc, bufSlice, corr, dPos, ac>>

(***************************************************************************)
(* JavaScript numbers that may be infinite.                                *)
(***************************************************************************)
Num(n) == [inf |-> FALSE, val |-> n]
Infinity == [inf |-> TRUE, val |-> 0]

RECURSIVE SumSeq(_)
\* Tools.tsx:59  intervals.reduce((a, b) => a + b, 0)
SumSeq(s) == IF s = <<>> THEN 0 ELSE s[1] + SumSeq(Tail(s))

\* Math.round of the quotient p / q of two integers, q >= 0: the nearest
\* integer, a half rounding up; a zero divisor gives +Infinity (p > 0 there)
RoundQuot(p, q) ==
    IF q = 0 THEN Infinity ELSE Num((2 * p + q) \div (2 * q))

RECURSIVE Log2Floor(_)
\* the exponent of the double n, n >= 1: the largest e with 2^e <= n
Log2Floor(n) == IF n < 2 THEN 0 ELSE 1 + Log2Floor(n \div 2)

RECURSIVE Pow2(_)
Pow2(e) == IF e = 0 THEN 1 ELSE 2 * Pow2(e - 1)

RECURSIVE Pow2Mod(_, _)
\* 2^e modulo k
Pow2Mod(e, k) == IF e = 0 THEN 1 % k ELSE (2 * Pow2Mod(e - 1, k)) % k

\* The double s / k (1 <= k <= s) has a 53-bit significand: it is the
\* integer nearest to s * 2^(52 - e) / k, e the exponent of s / k.  When that
\* division leaves the remainder rem with 2 * rem > k the double lies above
\* s / k by (k - rem) / k units in the last place; the result is that
\* numerator k - rem, and 0 when the double is exact or lies below.
MeanExcess(s, k) ==
    LET e == Log2Floor(s \div k)
        rem == ((s % k) * Pow2Mod(52 - e, k)) % k
    IN IF 2 * rem > k THEN k - rem ELSE 0

\* 60000 / (s / k) is exactly b + 1/2.  The double 60000 / avg, avg the
\* double s / k, is below b + 1/2 iff avg lies above s / k by more than
\* half a unit in the last place of b + 1/2, relative to b + 1/2:
\* (2b + 1) * excess * 2^e > s * 2^x, with e, x the exponents of s / k and b.
BelowTie(s, k, b) ==
    (2 * b + 1) * MeanExcess(s, k) * Pow2(Log2Floor(s \div k))
        > s * Pow2(Log2Floor(b))

\* Math.round(60000 / (s / k)) for the sum s >= 0 of k >= 1 intervals
\* (a tie needs 64 | s, so s >= k there)
RoundMeanQuot(s, k) ==
    IF s = 0 THEN Infinity
    ELSE LET p == 2 * MsPerMinute * k
             tie == p % s = 0 /\ (p \div s) % 2 = 1
             b == (p \div s) \div 2
         IN IF tie /\ BelowTie(s, k, b) THEN Num(b)
            ELSE RoundQuot(MsPerMinute * k, s)

(***************************************************************************)
(* Tap tempo (Tools.tsx:49-68, display at 184-186).                        *)
(***************************************************************************)
\* variant of Fresh: an entry exactly 3000 ms old is kept
FreshInclusive(n, t) == n - t <= StaleMs

\* Tools.tsx:51  the filter predicate  t => now - t < 3000
Fresh(n, t) == n - t < StaleMs

\* Tools.tsx:51  [...taps, now].filter(t => now - t < 3000)
NewTaps(old, n) == SelectSeq(Append(old, n), LAMBDA t : Fresh(n, t))

\* Tools.tsx:55-58  the consecutive differences of the window
Intervals(w) == [i \in 1..(Len(w) - 1) |-> w[i + 1] - w[i]]

\* variant of IntervalCount: divides by the number of timestamps
TapCount(w) == Len(w)

\* Tools.tsx:59  the number the sum of the intervals is divided by
IntervalCount(w) == Len(Intervals(w))

\* Tools.tsx:59-60  Math.round(60000 / (sum / intervals.length))
NewBpm(w) == RoundMeanQuot(SumSeq(Intervals(w)), IntervalCount(w))

\* Tools.tsx:49-63
handleTap ==
    /\ Len(taps) <= MaxTaps
    /\ LET newTaps == NewTaps(taps, clock) IN
         /\ taps' = newTaps
         /\ bpm' = IF Len(newTaps) > 1 THEN NewBpm(newTaps) ELSE bpm
    /\ now' = clock
    /\ prevTaps' = taps
    /\ prevOp' = lastOp
    /\ lastOp' = "tap"
    /\ UNCHANGED <<clock, resetFrom>>
    /\ UNCHANGED othersOfTap

\* variant of resetTap: the window is cleared, setBpm(0) is left out
resetTapKeepsBpm ==
    /\ taps' = <<>>
    /\ resetFrom' = Len(taps)
    /\ prevOp' = lastOp
    /\ lastOp' = "reset"
    /\ UNCHANGED <<clock, bpm, prevTaps, now>>
    /\ UNCHANGED othersOfTap

\* Tools.tsx:65-68
resetTap ==
    /\ taps' = <<>>
    /\ bpm' = Num(0)
    /\ resetFrom' = Len(taps)
    /\ prevOp' = lastOp
    /\ lastOp' = "reset"
    /\ UNCHANGED <<clock, prevTaps, now>>
    /\ UNCHANGED othersOfTap

\* Date.now() between two events: the wall clock advances
Tick ==
    /\ \E d \in Steps :
         /\ clock + d <= MaxTime
         /\ clock' = clock + d
    /\ UNCHANGED <<taps, bpm, lastOp, prevOp, prevTaps, now, resetFrom>>
    /\ UNCHANGED othersOfTap

\* Tools.tsx:184-186  {bpm > 0 ? bpm : '--'}
BpmDisplay ==
    IF bpm.inf THEN [kind |-> "Infinity", val |-> 0]
    ELSE IF bpm.val > 0 THEN [kind |-> "number", val |-> bpm.val]
    ELSE [kind |-> "--", val |-> 0]

InsufficientData == BpmDisplay.kind = "--"

\* no sketch, no download
MidiIdle ==
    /\ midiNotes = <<>>
    /\ sketchBpm = 0
    /\ blob = <<>>

\* Tools.tsx:5
NOTES == <<"C", "C#", "D", "D#", "E", "F", "F#", "G", "G#", "A", "A#", "B">>

\* Tools.tsx:6
OCTAVES == 0..8

\* a text that reads as a decimal number, kept as its hundredths
\* ("293.66" is 29366); parseFloat of it is that number
NumberText(h) == [kind |-> "number", hundredths |-> h]

\* the empty text of the frequency field; parseFloat of it is NaN
EmptyText == [kind |-> "empty", hundredths |-> 0]

\* Tools.tsx:118  the text 'Invalid'
InvalidText == [kind |-> "Invalid", hundredths |-> 0]

\* Tools.tsx:102  the label `${noteName}${oct} ${centStr}`
Label(name, oct, cents) ==
    [kind |-> "label", name |-> name, oct |-> oct, cents |-> cents]

\* Tools.tsx:104  the text '...'
Dots == [kind |-> "...", name |-> "", oct |-> 0, cents |-> 0]

\* Tools.tsx:33-40  the note mapper as the component is constructed
NoteIdle ==
    /\ isHzToNote = TRUE
    /\ hzInput = NumberText(44000)
    /\ noteOutput = Label("A", 4, 0)
    /\ selectedNote = "A"
    /\ selectedOctave = 4
    /\ hzOutput = NumberText(44000)

\* audioService.ts:43  the number -1, "no pitch"
Sentinel == [kind |-> "-1", rate |-> 0, pnum |-> 0, pden |-> 1]

\* the number +Infinity
PlusInfinity == [kind |-> "Infinity", rate |-> 0, pnum |-> 0, pden |-> 1]

\* no number yet: a variable before its assignment, the pitch state null
NoValue == [kind |-> "none", rate |-> 0, pnum |-> 0, pden |-> 1]

\* Tools.tsx:43-46  the tuner as the component is constructed
TunerIdle ==
    /\ isTunerActive = FALSE
    /\ analyserRef = FALSE
    /\ requestRef = 0
    /\ pendingTuner = 0
    /\ scheduled = {}
    /\ nextFrame = 1
    /\ toggledOff = FALSE
    /\ tunerOp = "none"

\* types.ts:18-23
RecorderState == {"IDLE", "RECORDING", "ANALYZING", "COMPLETED"}

\* Recorder.tsx:8-14, VoiceToMidi.tsx:8-13  a recorder component as it is
\* constructed
RecIdle ==
    /\ component = "Recorder"
    /\ state = "IDLE"
    /\ pendingMic = 0
    /\ recorders = <<>>
    /\ mediaRecorderRef = 0
    /\ sketches = <<>>

\* the tuner is off: no frame is being analysed
PitchIdle ==
    /\ buf = <<>>
    /\ sampleRate = 44100
    /\ pitchPc = "off"
    /\ bufSlice = <<>>
    /\ corr = <<>>
    /\ dPos = 0
    /\ ac = NoValue
    /\ pitch = NoValue

\* no call of writeVar on its own
VlqIdle ==
    /\ vlqValue = 0
    /\ vlqData = <<>>

TapIdle ==
    /\ clock = 0
    /\ taps = <<>>
    /\ bpm = Num(0)
    /\ lastOp = "none"
    /\ prevOp = "none"
    /\ prevTaps = <<>>
    /\ now = 0
    /\ resetFrom = 0

TapInit ==
    TapIdle /\ MidiIdle /\ VlqIdle /\ NoteIdle /\ PitchIdle /\ RecIdle /\ TunerIdle

TapNext == handleTap \/ resetTap \/ Tick

SpecTap == TapInit /\ [][TapNext]_vars

(***************************************************************************)
(* Properties of the tap tempo tracker, checked under SpecTap.             *)
(***************************************************************************)
\* C1: whenever a handleTap leaves fewer than 2 timestamps in the window,
\* the BPM shown is "insufficient data" ('--'), never a BPM computed by an
\* earlier tap.
C1_FewTapsReportInsufficient ==
    (lastOp = "tap" /\ Len(taps) < 2) => InsufficientData

\* C2 as stated: after every handleTap the window is the previous window with
\* now appended minus the entries with now - t > 3000, so that an entry
\* exactly 3000 ms old is kept.
C2_DroppedIffOlderThan3000 ==
    lastOp = "tap" =>
        taps = SelectSeq(Append(prevTaps, now), LAMBDA t : ~(now - t > StaleMs))

\* C2 amended: after every handleTap the window is the suffix of the previous
\* window with now appended that starts at the first entry less than 3000 ms
\* old: an entry is dropped if and only if now - t >= 3000, so an entry
\* exactly 3000 ms old is dropped and every entry of the window is strictly
\* less than 3000 ms older than the newest tap, which is now.
C2_DroppedIffAtLeast3000 ==
    lastOp = "tap" =>
        LET old == Append(prevTaps, now) IN
          /\ \E k \in 1..Len(old) :
               /\ taps = SubSeq(old, k, Len(old))
               /\ \A i \in 1..(k - 1) : now - old[i] >= StaleMs
               /\ \A i \in k..Len(old) : now - old[i] < StaleMs
          /\ taps[Len(taps)] = now
          /\ \A i \in 1..Len(taps) : now - taps[i] < StaleMs

\* a handleTap found an entry exactly 3000 ms old next to a younger one
C2_Witness ==
    /\ lastOp = "tap"
    /\ \E i \in 1..Len(prevTaps) : now - prevTaps[i] = StaleMs
    /\ Len(taps) >= 2

\* C3 as stated: when at least 2 timestamps remain, the BPM shown is
\* round(60000 / m), m the mean of the consecutive differences, that is
\* (newest - oldest) over the number of intervals: the integer b with
\* b - 1/2 <= 60000 / m < b + 1/2, a half rounding up.
C3_BpmIsRoundHalfUp ==
    (Len(taps) >= 2 /\ taps[Len(taps)] > taps[1]) =>
        LET span == taps[Len(taps)] - taps[1]
            k == Len(taps) - 1
            b == BpmDisplay.val
        IN /\ BpmDisplay.kind = "number"
           /\ (2 * b - 1) * span <= 2 * MsPerMinute * k
           /\ 2 * MsPerMinute * k < (2 * b + 1) * span

\* C3 amended: when at least 2 timestamps remain and they are not all equal,
\* the BPM shown is an integer nearest to 60000 / m, that is
\* b - 1/2 <= 60000 / m <= b + 1/2 (when 60000 / m is exactly half-way
\* between two integers the floating-point quotient decides which one); taps
\* at 0, 500, 1000, 1500 show exactly 120.
C3_BpmIsNearestInteger ==
    /\ (Len(taps) >= 2 /\ taps[Len(taps)] > taps[1]) =>
         LET span == taps[Len(taps)] - taps[1]
             k == Len(taps) - 1
             b == BpmDisplay.val
         IN /\ BpmDisplay.kind = "number"
            /\ (2 * b - 1) * span <= 2 * MsPerMinute * k
            /\ 2 * MsPerMinute * k <= (2 * b + 1) * span
    /\ taps = <<0, 500, 1000, 1500>> =>
         BpmDisplay = [kind |-> "number", val |-> 120]

\* four taps whose mean interval 1600 / 3 puts 60000 / m exactly on 112.5
C3_Witness ==
    /\ lastOp = "tap"
    /\ taps = <<0, 500, 1000, 1600>>
    /\ BpmDisplay = [kind |-> "number", val |-> 112]

\* C4: resetTap empties the window and shows "insufficient data"; the first
\* handleTap after a reset holds only its own timestamp and shows
\* "insufficient data" too.
C4_ResetClears ==
    /\ lastOp = "reset" => (taps = <<>> /\ InsufficientData)
    /\ (lastOp = "tap" /\ prevOp = "reset") =>
           (prevTaps = <<>> /\ taps = <<now>> /\ InsufficientData)

\* a tap right after a reset that cleared a window of several timestamps,
\* less than 3000 ms after the tap that had filled it
C4_Witness ==
    /\ lastOp = "tap"
    /\ prevOp = "reset"
    /\ resetFrom >= 2
    /\ now < StaleMs

\* C5: identical timestamps are guarded: the BPM shown is never infinite
\* (the quotient 60000 / 0), every BPM shown is a finite positive number.
C5_BpmFinite == BpmDisplay.kind # "Infinity" /\ ~bpm.inf

(***************************************************************************)
(* MIDI file encoder (audioService.ts:79-162) and its caller downloadMidi  *)
(* (VoiceToMidi.tsx:71-81).  A note is [note, velocity, startTime,         *)
(* duration] with the times in milliseconds; a tempo is an integer number  *)
(* of beats per minute.  With such inputs startTime / secondsPerTick is    *)
(* startTime(ms) * bpm / 125 and never lies half-way between two integers. *)
(* The tick values of the model stay below 2^28, so writeVarInt's 32-bit   *)
(* buffer holds the at most four groups without overflow.                  *)
(***************************************************************************)
\* audioService.ts:100
TICKS_PER_BEAT == 480
\* audioService.ts:140-141
headerSize == 14
trackHeaderSize == 8

MidiNotes ==
    [note : Pitches, velocity : Velocities,
     startTime : StartTimes, duration : Durations]

\* audioService.ts:101,113-114  Math.round(t / secondsPerTick), t in ms:
\* (t / 1000) / ((60 / bpm) / 480) = t * bpm * 480 / 60000
TickOf(t, tempo) == RoundQuot(t * tempo * TICKS_PER_BEAT, 60 * 1000).val

\* variant of NoteEvents: the note-off is pushed before the note-on
NoteEventsOffFirst(n, tempo) ==
    << [type |-> "noteOff", note |-> n.note, velocity |-> 0,
        time |-> TickOf(n.startTime + n.duration, tempo)],
       [type |-> "noteOn", note |-> n.note, velocity |-> n.velocity,
        time |-> TickOf(n.startTime, tempo)] >>

\* audioService.ts:112-117  the two events of one note, note-on first
NoteEvents(n, tempo) ==
    << [type |-> "noteOn", note |-> n.note, velocity |-> n.velocity,
        time |-> TickOf(n.startTime, tempo)],
       [type |-> "noteOff", note |-> n.note, velocity |-> 0,
        time |-> TickOf(n.startTime + n.duration, tempo)] >>

RECURSIVE EventsOf(_, _)
\* audioService.ts:110-117  notes.forEach(... events.push, events.push)
EventsOf(notes, tempo) ==
    IF notes = <<>> THEN <<>>
    ELSE NoteEvents(Head(notes), tempo) \o EventsOf(Tail(notes), tempo)

\* variant of InsertByTime: the event goes before the events of its own tick
InsertBeforeTies(sorted, e) ==
    LET k == Cardinality({i \in 1..Len(sorted) : sorted[i].time < e.time})
    IN SubSeq(sorted, 1, k) \o <<e>> \o SubSeq(sorted, k + 1, Len(sorted))

\* one step of the stable sort: e goes behind every event whose time is
\* not greater (sorted is in time order)
InsertByTime(sorted, e) ==
    LET k == Cardinality({i \in 1..Len(sorted) : sorted[i].time <= e.time})
    IN SubSeq(sorted, 1, k) \o <<e>> \o SubSeq(sorted, k + 1, Len(sorted))

RECURSIVE SortInto(_, _)
SortInto(sorted, rest) ==
    IF rest = <<>> THEN sorted
    ELSE SortInto(InsertByTime(sorted, Head(rest)), Tail(rest))

\* audioService.ts:119  events.sort((a, b) => a.time - b.time);
\* Array.prototype.sort is stable (ECMAScript 2019)
SortByTime(events) == SortInto(<<>>, events)

RECURSIVE PackVarInt(_, _)
\* audioService.ts:87-91  while ((value >>= 7) > 0) { buffer <<= 8;
\* buffer |= 0x80; buffer += value & 0x7f }
PackVarInt(buffer, value) ==
    LET v == value \div 128
    IN IF v > 0 THEN PackVarInt(buffer * 256 + 128 + (v % 128), v)
       ELSE buffer

RECURSIVE UnpackVarInt(_)
\* audioService.ts:92-96  push(buffer & 0xff); if (buffer & 0x80) buffer >>= 8
UnpackVarInt(buffer) ==
    <<buffer % 256>> \o
        (IF (buffer \div 128) % 2 = 1 THEN UnpackVarInt(buffer \div 256)
         ELSE <<>>)

\* variant of writeVarInt: the groups above the lowest seven bits are lost
writeVarIntLowGroup(value) == UnpackVarInt(value % 128)

\* audioService.ts:85-97  the bytes one call of writeVar(value) pushes;
\* value & 0x7f of a negative value is its residue modulo 128
writeVarInt(value) == UnpackVarInt(PackVarInt(value % 128, value))

\* audioService.ts:127  const deltaTime = event.time - currentTime
DeltaTime(event, currentTime) == event.time - currentTime

\* audioService.ts:129-134  what one event pushes on trackData
EventData(event, currentTime) ==
    writeVarInt(DeltaTime(event, currentTime)) \o
        (IF event.type = "noteOn" THEN <<144, event.note, event.velocity>>
         ELSE <<128, event.note, 0>>)

RECURSIVE WriteEvents(_, _)
\* audioService.ts:124-135  events.forEach(...)
WriteEvents(events, currentTime) ==
    IF events = <<>> THEN <<>>
    ELSE EventData(Head(events), currentTime)
             \o WriteEvents(Tail(events), Head(events).time)

\* variant of EndOfTrack: the meta-event without its delta-time
EndOfTrackNoDelta == <<255, 47, 0>>

\* audioService.ts:137-138  writeVar(0); trackData.push(0xFF, 0x2F, 0x00)
EndOfTrack == writeVarInt(0) \o <<255, 47, 0>>

\* audioService.ts:121-138  trackData, a number[]
TrackData(notes, tempo) ==
    WriteEvents(SortByTime(EventsOf(notes, tempo)), 0) \o EndOfTrack

\* variant of Uint32BE: the four bytes in little-endian order
Uint32LE(n) ==
    <<n % 256, (n \div 256) % 256, (n \div 65536) % 256, (n \div 16777216) % 256>>

\* DataView.setUint32 / setUint16, big-endian
Uint32BE(n) ==
    <<(n \div 16777216) % 256, (n \div 65536) % 256, (n \div 256) % 256, n % 256>>
Uint16BE(n) == <<(n \div 256) % 256, n % 256>>

\* audioService.ts:79-83  writeString and the DataView setters: the bytes
\* data stored from the 0-based offset on
WriteAt(view, offset, data) ==
    [i \in 1..Len(view) |->
        IF i > offset /\ i <= offset + Len(data) THEN data[i - offset]
        ELSE view[i]]

\* the char codes of 'MThd' and 'MTrk'
MThd == <<77, 84, 104, 100>>
MTrk == <<77, 84, 114, 107>>

\* a store into a Uint8Array keeps the value modulo 256
ToUint8(seq) == [i \in 1..Len(seq) |-> seq[i] % 256]

\* audioService.ts:99-162  the bytes of the Blob
generateMidiFile(notes, tempo) ==
    LET trackData == TrackData(notes, tempo)
        totalSize == headerSize + trackHeaderSize + Len(trackData)
        b0 == [i \in 1..totalSize |-> 0]
        b1 == WriteAt(b0, 0, MThd)
        b2 == WriteAt(b1, 4, Uint32BE(6))
        b3 == WriteAt(b2, 8, Uint16BE(0))
        b4 == WriteAt(b3, 10, Uint16BE(1))
        b5 == WriteAt(b4, 12, Uint16BE(TICKS_PER_BEAT))
        b6 == WriteAt(b5, 14, MTrk)
        b7 == WriteAt(b6, 18, Uint32BE(Len(trackData)))
    IN WriteAt(b7, 22, ToUint8(trackData))

\* VoiceToMidi.tsx:72  sketch.bpm || 120
TempoOf(b) == IF b = 0 THEN 120 ELSE b

\* VoiceToMidi.tsx:31-43  the analysis result becomes a sketch, note by note
AddNote ==
    /\ blob = <<>>
    /\ Len(midiNotes) < MaxNotes
    /\ \E n \in MidiNotes : midiNotes' = Append(midiNotes, n)
    /\ UNCHANGED <<sketchBpm, blob>>
    /\ UNCHANGED othersOfMidi

\* VoiceToMidi.tsx:71-81
downloadMidi ==
    /\ blob = <<>>
    /\ blob' = generateMidiFile(midiNotes, TempoOf(sketchBpm))
    /\ UNCHANGED <<midiNotes, sketchBpm>>
    /\ UNCHANGED othersOfMidi

MidiInit ==
    /\ TapIdle
    /\ VlqIdle
    /\ NoteIdle
    /\ PitchIdle
    /\ RecIdle /\ TunerIdle
    /\ midiNotes = <<>>
    /\ sketchBpm \in SketchBpms
    /\ blob = <<>>

MidiNext == AddNote \/ downloadMidi

SpecMidi == MidiInit /\ [][MidiNext]_vars

(***************************************************************************)
(* The variable-length quantity encoder on its own (audioService.ts:85-97).*)
(***************************************************************************)
\* 2^28 - 1, the largest value four bytes of seven bits hold
MaxVlq == 268435455

\* tick values handed to writeVar: the small ones and those around the
\* steps of the encoded length
VlqValues ==
    (0..MaxSmallVlq) \cup
    {127, 128, 129, 255, 256, 8192, 16383, 16384, 16385, 2097151, 2097152,
     2097153, 134217728, MaxVlq - 1, MaxVlq}

\* audioService.ts:120,128  writeVar(trackData, deltaTime)
writeVar ==
    /\ vlqData = <<>>
    /\ vlqData' = writeVarInt(vlqValue)
    /\ UNCHANGED vlqValue
    /\ UNCHANGED othersOfVlq

VlqInit ==
    /\ TapIdle
    /\ MidiIdle
    /\ NoteIdle
    /\ PitchIdle
    /\ RecIdle /\ TunerIdle
    /\ vlqValue \in VlqValues
    /\ vlqData = <<>>

VlqNext == writeVar

SpecVlq == VlqInit /\ [][VlqNext]_vars

(***************************************************************************)
(* The note mapper (Tools.tsx:9-20, 92-121, 255-311).  A positive          *)
(* frequency f is carried on the scale the code works on, the logarithm:   *)
(* its millicents from A4, floor(1200000 * log2(f / 440)).  Math.round and *)
(* Math.floor of 12 * log2 and 1200 * log2 are exact on that scale.        *)
(***************************************************************************)
\* Tools.tsx:116-117  (440 * Math.pow(2, (midi - 69) / 12)).toFixed(2) for
\* midi = 12 .. 119, as hundredths: entry midi - 11
ShownHundredths ==
    << 1635, 1732, 1835, 1945, 2060, 2183, 2312, 2450, 2596, 2750, 2914, 3087,
       3270, 3465, 3671, 3889, 4120, 4365, 4625, 4900, 5191, 5500, 5827, 6174,
       6541, 6930, 7342, 7778, 8241, 8731, 9250, 9800, 10383, 11000, 11654, 12347,
       13081, 13859, 14683, 15556, 16481, 17461, 18500, 19600, 20765, 22000, 23308, 24694,
       26163, 27718, 29366, 31113, 32963, 34923, 36999, 39200, 41530, 44000, 46616, 49388,
       52325, 55437, 58733, 62225, 65926, 69846, 73999, 78399, 83061, 88000, 93233, 98777,
       104650, 110873, 117466, 124451, 131851, 139691, 147998, 156798, 166122, 176000, 186466, 197553,
       209300, 221746, 234932, 248902, 263702, 279383, 295996, 313596, 332244, 352000, 372931, 395107,
       418601, 443492, 469864, 497803, 527404, 558765, 591991, 627193, 664488, 704000, 745862, 790213 >>
\* the millicents from A4 of the texts of ShownHundredths, entry by entry:
\* floor(1200000 * log2(ShownHundredths[i] / 44000))
ShownMillicents ==
    << -5700170, -5600392, -5500382, -5399594, -5300145, -5199744, -5100349, -4999980, -4899770, -4800000, -4699717, -4599872,
       -4500170, -4399892, -4299911, -4200039, -4100145, -4000140, -3899974, -3799980, -3700103, -3600000, -3500014, -3399872,
       -3299905, -3199892, -3099911, -3000039, -2899935, -2799942, -2699974, -2599980, -2499937, -2400000, -2300014, -2200012,
       -2100037, -2000017, -1900029, -1800039, -1700040, -1600041, -1499974, -1399980, -1300020, -1200000, -1100014, -1000012,
       -899971, -800017, -700029, -599984, -499988, -399992, -300021, -199980, -100020, 0, 99986, 199988,
       299996, 400014, 500001, 599988, 700012, 800008, 900002, 999998, 1100001, 1200000, 1300004, 1400005,
       1499996, 1599999, 1700001, 1800002, 1899999, 1999996, 2100002, 2199998, 2300001, 2400000, 2500004, 2599997,
       2699996, 2799999, 2900001, 3000002, 3099999, 3200002, 3300002, 3399998, 3500001, 3600000, 3699999, 3800001,
       3900000, 3999999, 4100001, 4199999, 4299999, 4399999, 4499999, 4600000, 4700001, 4800000, 4899999, 4999999 >>

\* other positive texts a user types: 0.01, 1.00, 5.00, 8.00, 8.18, 450.00
\* and 20000.00, and their millicents from A4
OtherHundredths == <<1, 100, 500, 800, 818, 45000, 2000000>>

OtherMillicents ==
    << -18510260, -10537632, -7751318, -6937632, -6899111, 38905, 6607623 >>

\* the positive numbers of the model, in hundredths
PositiveHundredths ==
    {ShownHundredths[i] : i \in 1..Len(ShownHundredths)} \cup
    {OtherHundredths[i] : i \in 1..Len(OtherHundredths)}

\* Tools.tsx:10,19  Math.log(frequency / 440) / Math.log(2), in millicents
Millicents(h) ==
    IF \E i \in 1..Len(ShownHundredths) : ShownHundredths[i] = h
    THEN ShownMillicents[CHOOSE i \in 1..Len(ShownHundredths) :
                             ShownHundredths[i] = h]
    ELSE OtherMillicents[CHOOSE i \in 1..Len(OtherHundredths) :
                             OtherHundredths[i] = h]

\* the texts the frequency field takes (type="number": a number or empty)
HzTexts ==
    {EmptyText} \cup {NumberText(h) : h \in {-500, 0} \cup PositiveHundredths}

\* the remainder operator % of the language: the sign of the dividend
JsRem(a, n) == IF a >= 0 THEN a % n ELSE 0 - ((0 - a) % n)

\* Tools.tsx:98  NOTES[i]: undefined outside the array
NoteAt(i) == IF i \in 0..(Len(NOTES) - 1) THEN NOTES[i + 1] ELSE "undefined"

\* Tools.tsx:111  NOTES.indexOf(name)
IndexOf(name) ==
    IF \E i \in 1..Len(NOTES) : NOTES[i] = name
    THEN (CHOOSE i \in 1..Len(NOTES) : NOTES[i] = name) - 1
    ELSE 0 - 1

\* Tools.tsx:9-12  Math.round(12 * log2(f / 440)) + 69
noteFromPitch(mc) == ((mc + 50000) \div 100000) + 69

\* Tools.tsx:14-20  Math.floor(1200 * log2(f / frequencyFromNoteNumber(note)))
centsOffFromPitch(mc, note) == (mc - (note - 69) * 100000) \div 1000

\* Tools.tsx:94-105  the label for the text of the frequency field
HzToNote(text) ==
    IF text.kind = "number" /\ text.hundredths > 0
    THEN LET mc == Millicents(text.hundredths)
             noteNum == noteFromPitch(mc)
         IN Label(NoteAt(JsRem(noteNum, 12)), (noteNum \div 12) - 1,
                  centsOffFromPitch(mc, noteNum))
    ELSE Dots

\* Tools.tsx:111-119  the text for a pitch class and an octave
NoteToHz(name, oct) ==
    LET noteIdx == IndexOf(name)
    IN IF noteIdx # 0 - 1
       THEN LET midi == (oct + 1) * 12 + noteIdx
            IN NumberText(ShownHundredths[midi - 11])
       ELSE InvalidText

\* Tools.tsx:269-273  onChange of the frequency field, then the effect 92-105
setHzInput ==
    /\ isHzToNote
    /\ \E t \in HzTexts :
         /\ hzInput' = t
         /\ noteOutput' = HzToNote(t)
    /\ UNCHANGED <<isHzToNote, selectedNote, selectedOctave, hzOutput>>
    /\ UNCHANGED othersOfNote

\* Tools.tsx:292-298  the pitch class dropdown, then the effect 108-121
setSelectedNote ==
    /\ ~isHzToNote
    /\ \E i \in 1..Len(NOTES) :
         /\ selectedNote' = NOTES[i]
         /\ hzOutput' = NoteToHz(NOTES[i], selectedOctave)
    /\ UNCHANGED <<isHzToNote, hzInput, noteOutput, selectedOctave>>
    /\ UNCHANGED othersOfNote

\* Tools.tsx:306-312  the octave dropdown, then the effect 108-121
setSelectedOctave ==
    /\ ~isHzToNote
    /\ \E o \in OCTAVES :
         /\ selectedOctave' = o
         /\ hzOutput' = NoteToHz(selectedNote, o)
    /\ UNCHANGED <<isHzToNote, hzInput, noteOutput, selectedNote>>
    /\ UNCHANGED othersOfNote

\* Tools.tsx:255  the swap button, then the effect of the new direction
setIsHzToNote ==
    /\ isHzToNote' = ~isHzToNote
    /\ IF isHzToNote'
       THEN noteOutput' = HzToNote(hzInput) /\ UNCHANGED hzOutput
       ELSE hzOutput' = NoteToHz(selectedNote, selectedOctave)
            /\ UNCHANGED noteOutput
    /\ UNCHANGED <<hzInput, selectedNote, selectedOctave>>
    /\ UNCHANGED othersOfNote

NoteInit ==
    TapIdle /\ MidiIdle /\ VlqIdle /\ NoteIdle /\ PitchIdle /\ RecIdle /\ TunerIdle

NoteNext ==
    setHzInput \/ setSelectedNote \/ setSelectedOctave \/ setIsHzToNote

SpecNote == NoteInit /\ [][NoteNext]_vars

(***************************************************************************)
(* The pitch estimator getPitch (audioService.ts:33-76) under its caller   *)
(* updatePitch (Tools.tsx:125-142).  A sample is an integer number of      *)
(* 256ths, so that the sums of products the code forms in doubles are      *)
(* exact; a correlation is then a number of 65536ths.  A returned          *)
(* frequency sampleRate / T0 is kept as the rate and the period T0 =       *)
(* pnum / pden, pden > 0.                                                  *)
(***************************************************************************)
\* sample values: loud either way (1, -1), silent, and two quiet ones
\* (2/256 = 0.0078 and 32/256 = 0.125, both under the threshold 0.2)
Amps == {-256, 0, 2, 32, 256}

SampleRates == {44100}

\* the frames getFloatTimeDomainData may deliver
Frames == [1..FrameLen -> Amps]

Abs(v) == IF v < 0 THEN 0 - v ELSE v

\* audioService.ts:37-40  the sum of val * val, in 65536ths
SumSq(b) == SumSeq([i \in 1..Len(b) |-> b[i] * b[i]])

\* variant of SignalTooLow: only the silent frame is too low
SignalTooLowSilent(b) == SumSq(b) = 0

\* audioService.ts:41-43  Math.sqrt(rms / size) < 0.01, that is
\* sum / (65536 * size) < 1 / 10000
SignalTooLow(b) == 625 * SumSq(b) < 4096 * Len(b)

\* variant of BelowThres: the sample is over the threshold
OverThres(v) == 5 * Abs(v) > 256

\* audioService.ts:47,49  Math.abs(buf[i]) < thres, thres = 0.2
BelowThres(v) == 5 * Abs(v) < 256

\* audioService.ts:46-48  r1: the first i < size / 2 under the threshold,
\* 0 when there is none
FindR1(b) ==
    LET hits == {i \in 0..(Len(b) - 1) : 2 * i < Len(b) /\ BelowThres(b[i + 1])}
    IN IF hits = {} THEN 0
       ELSE CHOOSE i \in hits : \A j \in hits : i <= j

\* audioService.ts:46,49-50  r2: size - i for the first i in 1 .. < size / 2
\* with buf[size - i] under the threshold, size - 1 when there is none
FindR2(b) ==
    LET hits == {i \in 1..(Len(b) - 1) :
                    2 * i < Len(b) /\ BelowThres(b[Len(b) - i + 1])}
    IN IF hits = {} THEN Len(b) - 1
       ELSE Len(b) - (CHOOSE i \in hits : \A j \in hits : i <= j)

\* audioService.ts:52  buf.slice(r1, r2): the samples r1 .. r2 - 1
Slice(b, r1, r2) == SubSeq(b, r1 + 1, r2)

\* audioService.ts:54-58  c[i] = sum over j < cSize - i of
\* bufSlice[j] * bufSlice[j + i]; entry i + 1 is c[i]
Correlate(sl) ==
    [i \in 1..Len(sl) |->
        SumSeq([j \in 1..(Len(sl) - i + 1) |-> sl[j] * sl[j + i - 1]])]

\* c[i]: a read outside the array is undefined
At(cc, i) ==
    IF i \in 0..(Len(cc) - 1) THEN [def |-> TRUE, val |-> cc[i + 1]]
    ELSE [def |-> FALSE, val |-> 0]

\* audioService.ts:60  x > y: false when either side is undefined
Greater(x, y) == x.def /\ y.def /\ x.val > y.val

\* audioService.ts:61-67  the first lag i >= d whose correlation is the
\* largest one and over maxval = -1 (65536 65536ths), -1 when there is none
MaxPos(cc, dd) ==
    LET over == {i \in dd..(Len(cc) - 1) : cc[i + 1] > 0 - 65536}
        best == {i \in over : \A j \in over : cc[j + 1] <= cc[i + 1]}
    IN IF over = {} THEN 0 - 1
       ELSE CHOOSE i \in best : \A j \in best : i <= j

\* rate / (pnum / pden) with pden > 0: a division by zero gives +Infinity
Quotient(rate, pnum, pden) ==
    IF pnum = 0 THEN PlusInfinity
    ELSE [kind |-> "quotient", rate |-> rate, pnum |-> pnum, pden |-> pden]

\* audioService.ts:68-75  the period T0 from the peak and its neighbours,
\* and sampleRate / T0.  With A = x1 + x3 - 2 * x2 = 2a and B = x3 - x1 = 2b
\* the refined period maxpos - b / (2a) is (2 * A * maxpos - B) / (2 * A);
\* a is NaN, and the refinement left out, when a neighbour is undefined
Estimate(cc, maxpos, rate) ==
    LET x1 == At(cc, maxpos - 1)
        x2 == At(cc, maxpos)
        x3 == At(cc, maxpos + 1)
        A == x1.val + x3.val - 2 * x2.val
        B == x3.val - x1.val
    IN IF x1.def /\ x2.def /\ x3.def /\ A # 0
       THEN IF A > 0 THEN Quotient(rate, 2 * A * maxpos - B, 2 * A)
            ELSE Quotient(rate, B - 2 * A * maxpos, 0 - 2 * A)
       ELSE Quotient(rate, maxpos, 1)

\* the sign of a returned number is positive
Positive(x) ==
    \/ x.kind = "Infinity"
    \/ x.kind = "quotient" /\ x.pnum > 0

\* Tools.tsx:131  ac > -1; a negative quotient is over -1 when
\* rate * pden < -pnum
OverMinusOne(x) ==
    \/ Positive(x)
    \/ /\ x.kind = "quotient"
       /\ x.pnum < 0
       /\ x.pden <= ((0 - x.pnum) - 1) \div x.rate

\* Tools.tsx:131-138  if (ac > -1) setPitch({..., freq: ac})
SetPitch(old, x) == IF OverMinusOne(x) THEN x ELSE old

\* Tools.tsx:126-129, audioService.ts:33-58  the call up to the loop at
\* line 60: the noise floor, the trimming and the correlation
getPitch ==
    /\ pitchPc = "called"
    /\ IF SignalTooLow(buf)
       THEN /\ ac' = Sentinel
            /\ pitch' = SetPitch(pitch, Sentinel)
            /\ pitchPc' = "returned"
            /\ UNCHANGED <<bufSlice, corr, dPos>>
       ELSE /\ bufSlice' = Slice(buf, FindR1(buf), FindR2(buf))
            /\ corr' = Correlate(bufSlice')
            /\ dPos' = 0
            /\ pitchPc' = "skipping"
            /\ UNCHANGED <<ac, pitch>>
    /\ UNCHANGED <<buf, sampleRate>>
    /\ UNCHANGED othersOfPitch

\* audioService.ts:60  one round of  while (c[d] > c[d + 1]) d++
skipDescent ==
    /\ pitchPc = "skipping"
    /\ Greater(At(corr, dPos), At(corr, dPos + 1))
    /\ dPos' = dPos + 1
    /\ UNCHANGED <<buf, sampleRate, pitchPc, bufSlice, corr, ac, pitch>>
    /\ UNCHANGED othersOfPitch

\* audioService.ts:60-75, Tools.tsx:131-138  the loop ends; the peak, the
\* period and the returned frequency, and what the caller does with it
pickPeak ==
    /\ pitchPc = "skipping"
    /\ ~Greater(At(corr, dPos), At(corr, dPos + 1))
    /\ ac' = Estimate(corr, MaxPos(corr, dPos), sampleRate)
    /\ pitch' = SetPitch(pitch, ac')
    /\ pitchPc' = "returned"
    /\ UNCHANGED <<buf, sampleRate, bufSlice, corr, dPos>>
    /\ UNCHANGED othersOfPitch

PitchInit ==
    /\ TapIdle
    /\ MidiIdle
    /\ VlqIdle
    /\ NoteIdle
    /\ RecIdle /\ TunerIdle
    /\ buf \in Frames
    /\ sampleRate \in SampleRates
    /\ pitchPc = "called"
    /\ bufSlice = <<>>
    /\ corr = <<>>
    /\ dPos = 0
    /\ ac = NoValue
    /\ pitch = NoValue

PitchNext == getPitch \/ skipDescent \/ pickPeak

SpecPitch == PitchInit /\ [][PitchNext]_vars

(***************************************************************************)
(* The recorder components (Recorder.tsx:16-76, VoiceToMidi.tsx:15-69).    *)
(* startRecording waits for getUserMedia; the stop event of a recorder     *)
(* runs onstop, which waits for the analysis.  A recorder is               *)
(* [status, live]: status is "recording", "stopping" (stop() called, the   *)
(* stop event not yet delivered), "analyzing" or "done"; live tells        *)
(* whether the tracks of its stream are running.                           *)
(***************************************************************************)
Components == {"Recorder", "VoiceToMidi"}

\* how the awaited calls of onstop end: Recorder.tsx:33-34 resolves or
\* throws; VoiceToMidi.tsx:29-32 also resolves without notes
Outcomes(comp) ==
    IF comp = "Recorder" THEN {"succeeds", "throws"}
    ELSE {"succeeds", "noNotes", "throws"}

\* Recorder.tsx:36-45, VoiceToMidi.tsx:32-45  the list after the awaited
\* calls ended in outcome: [newSketch, ...prev] when a sketch is made
AddSketch(prev, outcome) ==
    IF outcome = "succeeds" THEN <<outcome>> \o prev ELSE prev

\* Recorder.tsx:16-18, 113-115  a click on the start button, shown while the
\* state is IDLE or COMPLETED: getUserMedia is called and awaited
startRecording ==
    /\ state \in {"IDLE", "COMPLETED"}
    /\ Len(recorders) + pendingMic < MaxRecordings
    /\ pendingMic' = pendingMic + 1
    /\ UNCHANGED <<component, state, recorders, mediaRecorderRef, sketches>>
    /\ UNCHANGED othersOfRec

\* Recorder.tsx:18-62  getUserMedia resolves: the recorder is created,
\* stored in the ref and started, and the state is set to RECORDING
getUserMediaResolves ==
    /\ pendingMic > 0
    /\ pendingMic' = pendingMic - 1
    /\ recorders' = Append(recorders, [status |-> "recording", live |-> TRUE])
    /\ mediaRecorderRef' = Len(recorders) + 1
    /\ state' = "RECORDING"
    /\ UNCHANGED <<component, sketches>>
    /\ UNCHANGED othersOfRec

\* Recorder.tsx:64-67  getUserMedia rejects: an alert, nothing else
getUserMediaRejects ==
    /\ pendingMic > 0
    /\ pendingMic' = pendingMic - 1
    /\ UNCHANGED <<component, state, recorders, mediaRecorderRef, sketches>>
    /\ UNCHANGED othersOfRec

\* Recorder.tsx:70-75, 120-122  a click on the stop button, shown while the
\* state is neither IDLE nor COMPLETED; stop() on a recorder that is not
\* recording changes nothing
stopRecording ==
    /\ state \notin {"IDLE", "COMPLETED"}
    /\ IF /\ mediaRecorderRef # 0
          /\ state = "RECORDING"
          /\ recorders[mediaRecorderRef].status = "recording"
       THEN recorders' = [recorders EXCEPT ![mediaRecorderRef].status = "stopping"]
       ELSE UNCHANGED recorders
    /\ UNCHANGED <<component, state, pendingMic, mediaRecorderRef, sketches>>
    /\ UNCHANGED othersOfRec

\* Recorder.tsx:25-33  the stop event of a recorder: onstop runs up to its
\* first await
onstop ==
    \E r \in 1..Len(recorders) :
        /\ recorders[r].status = "stopping"
        /\ recorders' = [recorders EXCEPT ![r].status = "analyzing"]
        /\ state' = "ANALYZING"
        /\ UNCHANGED <<component, pendingMic, mediaRecorderRef, sketches>>
        /\ UNCHANGED othersOfRec

\* Recorder.tsx:33-54  the awaited calls of onstop end: the sketch, the
\* finally block and the stopping of the tracks
onstopResumes ==
    \E r \in 1..Len(recorders) :
        /\ recorders[r].status = "analyzing"
        /\ \E outcome \in Outcomes(component) :
             sketches' = AddSketch(sketches, outcome)
        /\ state' = "IDLE"
        /\ recorders' = [recorders EXCEPT ![r] =
                             [status |-> "done", live |-> FALSE]]
        /\ UNCHANGED <<component, pendingMic, mediaRecorderRef>>
        /\ UNCHANGED othersOfRec

RecInit ==
    /\ TapIdle
    /\ MidiIdle
    /\ VlqIdle
    /\ NoteIdle
    /\ PitchIdle
    /\ TunerIdle
    /\ component \in Components
    /\ state = "IDLE"
    /\ pendingMic = 0
    /\ recorders = <<>>
    /\ mediaRecorderRef = 0
    /\ sketches = <<>>

RecNext ==
    \/ startRecording
    \/ getUserMediaResolves
    \/ getUserMediaRejects
    \/ stopRecording
    \/ onstop
    \/ onstopResumes

\* a stop event is delivered and an awaited call settles; a click and the
\* answer to a permission request need not come
SpecRec ==
    /\ RecInit
    /\ [][RecNext]_vars
    /\ WF_vars(onstop)
    /\ WF_vars(onstopResumes)

(***************************************************************************)
(* The tuner (Tools.tsx:125-166, button at 338).  toggleTuner waits for    *)
(* getUserMedia when it turns the tuner on; updatePitch runs once from     *)
(* that continuation and then as the callback of each animation frame it   *)
(* requested itself.                                                       *)
(***************************************************************************)
\* Tools.tsx:129  what getPitch may return for a frame: no pitch, or a
\* frequency (441 Hz, a period of 100 samples at 44100 Hz)
TunerResults == {Sentinel, Quotient(44100, 100, 1)}

\* Tools.tsx:144-150, 153  a click on the tuner button: off when the tuner
\* is active, else a request for the microphone that is awaited
toggleTuner ==
    /\ isTunerActive \/ pendingTuner < MaxPendingTuner
    /\ IF isTunerActive
       THEN /\ isTunerActive' = FALSE
            /\ scheduled' = scheduled \ {requestRef}
            /\ pitch' = NoValue
            /\ toggledOff' = TRUE
            /\ tunerOp' = "off"
            /\ UNCHANGED pendingTuner
       ELSE /\ pendingTuner' = pendingTuner + 1
            /\ toggledOff' = FALSE
            /\ tunerOp' = "on"
            /\ UNCHANGED <<isTunerActive, scheduled, pitch>>
    /\ UNCHANGED <<analyserRef, requestRef, nextFrame>>
    /\ UNCHANGED othersOfTuner

\* Tools.tsx:153-161, 125-142  getUserMedia resolves: the analyser is
\* stored, the tuner set active and updatePitch called
toggleTunerResumes ==
    /\ pendingTuner > 0
    /\ nextFrame <= MaxFrames
    /\ pendingTuner' = pendingTuner - 1
    /\ analyserRef' = TRUE
    /\ isTunerActive' = TRUE
    /\ \E x \in TunerResults : pitch' = SetPitch(pitch, x)
    /\ scheduled' = scheduled \cup {nextFrame}
    /\ requestRef' = nextFrame
    /\ nextFrame' = nextFrame + 1
    /\ tunerOp' = "granted"
    /\ UNCHANGED toggledOff
    /\ UNCHANGED othersOfTuner

\* Tools.tsx:162-165  getUserMedia rejects: an alert, nothing else
toggleTunerFails ==
    /\ pendingTuner > 0
    /\ pendingTuner' = pendingTuner - 1
    /\ tunerOp' = "denied"
    /\ UNCHANGED <<isTunerActive, analyserRef, requestRef, scheduled,
                   nextFrame, toggledOff, pitch>>
    /\ UNCHANGED othersOfTuner

\* Tools.tsx:125-142  the callback of a requested animation frame
updatePitch ==
    /\ nextFrame <= MaxFrames
    /\ \E f \in scheduled :
         IF analyserRef
         THEN /\ \E x \in TunerResults : pitch' = SetPitch(pitch, x)
              /\ scheduled' = (scheduled \ {f}) \cup {nextFrame}
              /\ requestRef' = nextFrame
              /\ nextFrame' = nextFrame + 1
         ELSE /\ scheduled' = scheduled \ {f}
              /\ UNCHANGED <<pitch, requestRef, nextFrame>>
    /\ tunerOp' = "frame"
    /\ UNCHANGED <<isTunerActive, analyserRef, pendingTuner, toggledOff>>
    /\ UNCHANGED othersOfTuner

TunerInit ==
    /\ TapIdle
    /\ MidiIdle
    /\ VlqIdle
    /\ NoteIdle
    /\ PitchIdle
    /\ RecIdle
    /\ TunerIdle

TunerNext ==
    toggleTuner \/ toggleTunerResumes \/ toggleTunerFails \/ updatePitch

SpecTuner == TunerInit /\ [][TunerNext]_vars

(***************************************************************************)
(* Reading a file back: a standard decoder of the track chunk.             *)
(***************************************************************************)
RECURSIVE ReadVarInt(_, _, _)
\* the variable-length quantity that starts at pos: its value and the
\* position behind it
ReadVarInt(bytes, pos, acc) ==
    IF pos > Len(bytes) THEN [value |-> acc, next |-> pos]
    ELSE IF bytes[pos] >= 128
         THEN ReadVarInt(bytes, pos + 1, acc * 128 + (bytes[pos] - 128))
         ELSE [value |-> acc * 128 + bytes[pos], next |-> pos + 1]

RECURSIVE DecodeTrack(_, _, _)
\* the channel events of a track, up to the first meta-event, each with its
\* delta-time and its absolute tick (the running sum of the deltas)
DecodeTrack(bytes, pos, tick) ==
    LET d == ReadVarInt(bytes, pos, 0)
        p == d.next
    IN IF p + 2 > Len(bytes) \/ bytes[p] = 255 THEN <<>>
       ELSE << [status |-> bytes[p], data1 |-> bytes[p + 1],
                data2 |-> bytes[p + 2], delta |-> d.value,
                tick |-> tick + d.value] >>
            \o DecodeTrack(bytes, p + 3, tick + d.value)

\* the channel events of the file downloadMidi produced
Decoded == DecodeTrack(SubSeq(blob, 23, Len(blob)), 1, 0)

\* the events generated from the sketch, in the order of generation
Generated == EventsOf(midiNotes, TempoOf(sketchBpm))

\* round(t / secondsPerTick) for t in ms: t * bpm / 125, a half rounding up
ExpectedTick(t, tempo) == (2 * t * tempo + 125) \div 250

Count(seq, P(_)) == Cardinality({i \in 1..Len(seq) : P(seq[i])})

(***************************************************************************)
(* Properties of the MIDI encoder, checked under SpecMidi.                 *)
(***************************************************************************)
\* C6: for every note list, each delta-time the encoder writes is
\* non-negative, and the absolute ticks decoded from the track are
\* non-decreasing and are the rounded ticks computed for the events.
C6_DeltasNonNegativeTicksExact ==
    blob # <<>> =>
        LET sorted == SortByTime(Generated)
        IN /\ \A i \in 1..Len(sorted) :
                DeltaTime(sorted[i], IF i = 1 THEN 0 ELSE sorted[i - 1].time) >= 0
           /\ Len(Decoded) = Len(Generated)
           /\ \A i \in 1..(Len(Decoded) - 1) : Decoded[i].tick <= Decoded[i + 1].tick
           /\ \A i \in 1..Len(Decoded) :
                /\ Decoded[i].delta >= 0
                /\ Count(Decoded, LAMBDA e : e.tick = Decoded[i].tick)
                     = Count(Generated, LAMBDA e : e.time = Decoded[i].tick)

\* C7: the output is "MThd", 6 as a big-endian uint32, format 0, 1 track,
\* division 480, "MTrk", the big-endian count N of track bytes, then exactly
\* N track bytes (22 + N in all), the last four being 00 FF 2F 00.
C7_FileLayout ==
    blob # <<>> =>
        /\ Len(blob) >= 26
        /\ SubSeq(blob, 1, 4) = <<77, 84, 104, 100>>
        /\ SubSeq(blob, 5, 8) = <<0, 0, 0, 6>>
        /\ SubSeq(blob, 9, 10) = <<0, 0>>
        /\ SubSeq(blob, 11, 12) = <<0, 1>>
        /\ blob[13] * 256 + blob[14] = 480
        /\ SubSeq(blob, 15, 18) = <<77, 84, 114, 107>>
        /\ ((blob[19] * 256 + blob[20]) * 256 + blob[21]) * 256 + blob[22]
             = Len(blob) - 22
        /\ SubSeq(blob, Len(blob) - 3, Len(blob)) = <<0, 255, 47, 0>>
        /\ \A i \in 1..Len(blob) : blob[i] \in 0..255

\* a file holding the events of two notes that sound one after the other
C7_Witness ==
    /\ blob # <<>>
    /\ Len(midiNotes) >= 2
    /\ Len(blob) >= 40
    /\ midiNotes[1].duration > 0
    /\ midiNotes[2].startTime >= midiNotes[1].startTime + midiNotes[1].duration

\* C8: an empty note list, at 120 BPM and at any other tempo, gives exactly
\* 26 bytes: the 22 header bytes with track length 4, then 00 FF 2F 00.
C8_EmptyNoteList ==
    (blob # <<>> /\ midiNotes = <<>>) =>
        blob = <<77, 84, 104, 100, 0, 0, 0, 6, 0, 0, 0, 1, 1, 224,
                 77, 84, 114, 107, 0, 0, 0, 4, 0, 255, 47, 0>>

\* the empty list was encoded at a tempo other than the default
C8_Witness == blob # <<>> /\ midiNotes = <<>> /\ sketchBpm = 90

\* C9: the track holds exactly two channel events for every input note: a
\* note-on (0x90, pitch, velocity) at tick round(startTime / secondsPerTick)
\* and a note-off (0x80, pitch, 0) at tick
\* round((startTime + duration) / secondsPerTick); k notes give 2k events,
\* and {60, 100, 0 s, 0.5 s} at 120 BPM gives note-on at 0, note-off at 480.
C9_TwoEventsPerNote ==
    blob # <<>> =>
        LET tempo == TempoOf(sketchBpm)
            On(n) == [status |-> 144, data1 |-> n.note, data2 |-> n.velocity,
                      tick |-> ExpectedTick(n.startTime, tempo)]
            Off(n) == [status |-> 128, data1 |-> n.note, data2 |-> 0,
                       tick |-> ExpectedTick(n.startTime + n.duration, tempo)]
            Event(i) == [status |-> Decoded[i].status, data1 |-> Decoded[i].data1,
                         data2 |-> Decoded[i].data2, tick |-> Decoded[i].tick]
            found == [i \in 1..Len(Decoded) |-> Event(i)]
        IN /\ Len(found) = 2 * Len(midiNotes)
           /\ \A j \in 1..Len(midiNotes) :
                /\ Count(found, LAMBDA e : e = On(midiNotes[j]))
                     = Count(midiNotes, LAMBDA n : On(n) = On(midiNotes[j]))
                /\ Count(found, LAMBDA e : e = Off(midiNotes[j]))
                     = Count(midiNotes, LAMBDA n : Off(n) = Off(midiNotes[j]))
           /\ (midiNotes = <<[note |-> 60, velocity |-> 100, startTime |-> 0,
                              duration |-> 500]>> /\ tempo = 120) =>
                 found = <<[status |-> 144, data1 |-> 60, data2 |-> 100, tick |-> 0],
                           [status |-> 128, data1 |-> 60, data2 |-> 0, tick |-> 480]>>

RECURSIVE InTimeOrder(_, _)
\* the events of ev, tick by tick in ascending order of the ticks in times,
\* those of one tick in the order they have in ev
InTimeOrder(ev, times) ==
    IF times = {} THEN <<>>
    ELSE LET t == CHOOSE x \in times : \A y \in times : x <= y
         IN SelectSeq(ev, LAMBDA e : e.time = t) \o InTimeOrder(ev, times \ {t})

\* C10: events that fall on the same tick are written in the order in which
\* they were generated (input note order, note-on before note-off): the
\* channel messages of the track are the generated events tick by tick, each
\* tick's events in generation order.
C10_TiesInGenerationOrder ==
    blob # <<>> =>
        LET order == InTimeOrder(Generated, {Generated[i].time : i \in 1..Len(Generated)})
        IN /\ Len(Decoded) = Len(order)
           /\ \A i \in 1..Len(order) :
                /\ Decoded[i].status = (IF order[i].type = "noteOn" THEN 144 ELSE 128)
                /\ Decoded[i].data1 = order[i].note % 256
                /\ Decoded[i].data2 = order[i].velocity % 256

\* the note-off of a later note and the note-on of an earlier note of the
\* list, of different pitch, share a tick
C10_Witness ==
    /\ blob # <<>>
    /\ \A k \in 1..Len(midiNotes) :
         midiNotes[k].duration > 0 /\ midiNotes[k].note \in 0..127
    /\ \E i, j \in 1..Len(Generated) :
         /\ i < j
         /\ Generated[i].type = "noteOn"
         /\ Generated[j].type = "noteOff"
         /\ Generated[i].note # Generated[j].note
         /\ Generated[i].time = Generated[j].time
         /\ Generated[i].time > 0

\* what the claim takes for an invalid note: a pitch or a velocity outside
\* 0..127, or a negative duration
InvalidNote(n) ==
    \/ n.note \notin 0..127
    \/ n.velocity \notin 0..127
    \/ n.duration < 0

\* C12: when some input note has a pitch or velocity outside 0..127 or a
\* negative duration, the encoder reports a validation error and produces
\* no bytes at all: no file exists for such a list.
C12_InvalidNotesGiveNoBytes ==
    (\E k \in 1..Len(midiNotes) : InvalidNote(midiNotes[k])) => blob = <<>>

\* the generated events, each with the index of the note it belongs to
OwnedEvents ==
    [i \in 1..Len(Generated) |->
        [type |-> Generated[i].type, note |-> Generated[i].note,
         velocity |-> Generated[i].velocity, time |-> Generated[i].time,
         owner |-> (i + 1) \div 2]]

\* the place of the note-on or note-off of note k in a list of owned events
PlaceOf(events, k, type) ==
    CHOOSE i \in 1..Len(events) : events[i].owner = k /\ events[i].type = type

\* C19: for a note list in which every note has startTime >= 0 and
\* duration >= 0, the track holds the events in the order the sort leaves
\* them in, and in that order each note's own note-on stands before that
\* note's own note-off, also when both round to the same tick.
C19_OwnOnBeforeOwnOff ==
    (/\ blob # <<>>
     /\ \A k \in 1..Len(midiNotes) :
          midiNotes[k].startTime >= 0 /\ midiNotes[k].duration >= 0)
    => LET written == SortByTime(OwnedEvents)
       IN /\ Len(Decoded) = Len(written)
          /\ \A i \in 1..Len(written) :
               /\ Decoded[i].status =
                      (IF written[i].type = "noteOn" THEN 144 ELSE 128)
               /\ Decoded[i].data1 = written[i].note % 256
               /\ Decoded[i].tick = written[i].time
          /\ \A k \in 1..Len(midiNotes) :
               PlaceOf(written, k, "noteOn") < PlaceOf(written, k, "noteOff")

\* a file was written from notes of non-negative start and duration, one
\* of them of positive duration with both its events on one tick
C19_Witness ==
    /\ blob # <<>>
    /\ \A k \in 1..Len(midiNotes) :
         midiNotes[k].startTime >= 0 /\ midiNotes[k].duration >= 0
    /\ \E k \in 1..Len(midiNotes) :
         /\ midiNotes[k].duration > 0
         /\ Generated[2 * k - 1].time = Generated[2 * k].time

(***************************************************************************)
(* Claims about the variable-length quantity (specification SpecVlq).      *)
(***************************************************************************)
RECURSIVE GroupsValue(_, _)
\* the number whose base-128 digits, most significant first, are the low
\* seven bits of the bytes
GroupsValue(bytes, acc) ==
    IF bytes = <<>> THEN acc
    ELSE GroupsValue(Tail(bytes), acc * 128 + (Head(bytes) % 128))

\* C11: for every tick value v in 0 .. 2^28 - 1 the encoder writes between
\* one and four bytes, the continuation bit 0x80 is set on every byte but
\* the last, the bytes carry seven value bits each, most significant group
\* first, and a standard reader gets exactly v back, consuming all of them.
C11_VlqRoundTrip ==
    vlqData # <<>> =>
        /\ vlqValue \in 0..MaxVlq
        /\ Len(vlqData) \in 1..4
        /\ \A i \in 1..Len(vlqData) :
             /\ vlqData[i] \in 0..255
             /\ (vlqData[i] >= 128) <=> (i < Len(vlqData))
        /\ GroupsValue(vlqData, 0) = vlqValue
        /\ ReadVarInt(vlqData, 1, 0) = [value |-> vlqValue,
                                         next |-> Len(vlqData) + 1]

\* the largest value was encoded, on four bytes
C11_Witness == vlqValue = MaxVlq /\ vlqData = <<255, 255, 255, 127>>

C14_OutOfDomainReported ==
    /\ (~isHzToNote /\ (IndexOf(selectedNote) = 0 - 1
                          \/ selectedOctave \notin OCTAVES))
          => hzOutput = InvalidText
    /\ (isHzToNote /\ ~(hzInput.kind = "number" /\ hzInput.hundredths > 0))
          => noteOutput = Dots
    /\ (isHzToNote /\ noteOutput # Dots)
          => \E i \in 1..Len(NOTES) : noteOutput.name = NOTES[i]

(***************************************************************************)
(* Claims about the pitch estimator (specification SpecPitch).             *)
(***************************************************************************)
\* the frame has been correlated
Correlated == corr # <<>>

\* C15: a frame whose RMS amplitude is below 0.01, the all-zero frame
\* included, makes the estimator return the "no pitch" sentinel, and it
\* returns before the frame is trimmed or correlated.
C15_LowRmsGivesSentinel ==
    (pitchPc # "called" /\ 625 * SumSq(buf) < 4096 * Len(buf))
    => /\ pitchPc = "returned"
       /\ ac = Sentinel
       /\ bufSlice = <<>>
       /\ ~Correlated
       /\ pitch = NoValue

\* a frame that is not silent but under the noise floor was answered
C15_Witness ==
    /\ pitchPc = "returned"
    /\ SumSq(buf) > 0
    /\ 625 * SumSq(buf) < 4096 * Len(buf)
    /\ ac = Sentinel

\* C16: every returned value is the sentinel or a strictly positive finite
\* frequency (never infinite, negative or the result of a division by a
\* zero period), and the caller takes a pitch for detected exactly when the
\* value is such a frequency.
C16_SentinelOrPositiveFinite ==
    pitchPc = "returned"
    => /\ ac = Sentinel \/ (ac.kind = "quotient" /\ ac.pnum > 0)
       /\ (pitch # NoValue) <=> (ac.kind = "quotient" /\ ac.pnum > 0)

\* C17 as stated: the correlated buffer starts at the first sample whose
\* absolute value exceeds 0.2 and ends at the last such sample.
C17_TrimmedAtLoudSamples ==
    Correlated =>
        LET loud == {p \in 1..Len(buf) : 5 * Abs(buf[p]) > 256}
        IN loud # {} =>
             bufSlice = SubSeq(buf,
                               CHOOSE p \in loud : \A q \in loud : p <= q,
                               CHOOSE p \in loud : \A q \in loud : q <= p)

\* C17, amended: the correlated buffer starts at the first sample of the
\* first half of the frame whose absolute value is below 0.2 (at the first
\* sample of the frame when there is none) and ends just before the last
\* sample, among the samples size - i with 1 <= i < size / 2, whose absolute
\* value is below 0.2 (just before the last sample of the frame when there
\* is none).  Positions count from 1.
C17_TrimmedAtQuietSamples ==
    Correlated =>
        LET size == Len(buf)
            front == {p \in 1..size :
                         2 * (p - 1) < size /\ 5 * Abs(buf[p]) < 256}
            back == {p \in 2..size :
                        2 * (size - p + 1) < size /\ 5 * Abs(buf[p]) < 256}
            first == IF front = {} THEN 1
                     ELSE CHOOSE p \in front : \A q \in front : p <= q
            last == IF back = {} THEN size - 1
                    ELSE (CHOOSE p \in back : \A q \in back : q <= p) - 1
        IN bufSlice = SubSeq(buf, first, last)

\* a frame was cut at both ends: it begins with a loud sample that is left
\* out, and the buffer begins with a quiet one
C17_Witness ==
    /\ pitchPc = "returned"
    /\ Correlated
    /\ 5 * Abs(buf[1]) > 256
    /\ 5 * Abs(bufSlice[1]) < 256
    /\ Len(bufSlice) < Len(buf) - 1

\* C18: the loop that skips the descending start of the correlation stops
\* at or before the last lag, the peak is chosen among the lags
\* 0 .. length - 1, and the call returns the sentinel or the frequency of
\* that lag.
C18_SkipStopsBestLagReturned ==
    /\ Correlated => dPos <= Len(corr) - 1
    /\ (pitchPc = "returned" /\ Correlated)
          => \/ ac = Sentinel
             \/ /\ MaxPos(corr, dPos) \in 0..(Len(corr) - 1)
                /\ ac.kind = "quotient"

(***************************************************************************)
(* Claim about the recorder components (specification SpecRec).            *)
(***************************************************************************)
\* the moves IDLE -> RECORDING -> ANALYZING -> IDLE
LegalMoves ==
    {<<"IDLE", "RECORDING">>, <<"RECORDING", "ANALYZING">>,
     <<"ANALYZING", "IDLE">>}

\* C20: the state only moves IDLE -> RECORDING -> ANALYZING -> IDLE; a
\* recorder is stopped only while the state is RECORDING; every sketch of
\* the list comes from an analysis that succeeded; and once a recorder is
\* stopped the state is eventually IDLE with the tracks of its stream
\* stopped, however the analysis ends.
C20_RecorderLifecycle ==
    /\ [][state' # state => <<state, state'>> \in LegalMoves]_vars
    /\ [][\A r \in 1..Len(recorders) :
            (recorders[r].status = "recording"
             /\ recorders'[r].status = "stopping") => state = "RECORDING"]_vars
    /\ [](\A i \in 1..Len(sketches) : sketches[i] = "succeeds")
    /\ \A r \in 1..MaxRecordings :
         (r <= Len(recorders) /\ recorders[r].status = "stopping")
         ~> (r <= Len(recorders) /\ state = "IDLE" /\ ~recorders[r].live)

(***************************************************************************)
(* Claim about the tuner (specification SpecTuner).                        *)
(***************************************************************************)
\* Tools.tsx:346-351  a pitch is on display when the tuner is active and
\* the pitch state is not null
PitchDisplayed == isTunerActive /\ pitch # NoValue

\* C21: once the tuner has been toggled off, and until it is toggled on
\* again, no pitch-update callback runs and no pitch is displayed; and at
\* most one update loop is scheduled at any time, whatever the order of the
\* clicks, the answers to the permission requests and the frame callbacks.
C21_OffStopsUpdates ==
    /\ toggledOff => tunerOp # "frame"
    /\ toggledOff => ~PitchDisplayed
    /\ Cardinality(scheduled) <= 1

====
